---------------------------- MODULE Spec2Model ----------------------------
(***************************************************************************)
(* Vocabulary construction and tokenization pipeline of data_utils.py:     *)
(* create_vocabulary, initialize_vocabulary, sentence_to_token_ids,        *)
(* data_to_token_ids and prepare_data, over a file system that maps each   *)
(* path that exists to its file, a sequence of text lines.                 *)
(*                                                                         *)
(* Text is a TLA+ string; a character is a string of length one.           *)
(***************************************************************************)
EXTENDS Integers, Sequences, FiniteSets, TLC

(***************************************************************************)
(* Bounds of the model.                                                    *)
(***************************************************************************)
\* Largest max_vocabulary_size tried (the smallest is -1).
MaxVocabularySize == 10
\* Largest number of lines written before an injected fault.
MaxFaultAt == 2

(***************************************************************************)
(* Special vocabulary symbols and their ids.                               *)
(***************************************************************************)
_PAD == "_PAD"
_GO == "_GO"
_EOS == "_EOS"
_UNK == "_UNK"
_START_VOCAB == <<_PAD, _GO, _EOS, _UNK>>

PAD_ID == 0
GO_ID == 1
EOS_ID == 2
UNK_ID == 3

(***************************************************************************)
(* Strings.                                                                *)
(***************************************************************************)
Range(s) == {s[i] : i \in DOMAIN s}

Char(s, i) == SubSeq(s, i, i)

\* Characters str.strip() and the tokenizer treat as white space.
IsSpace(c) == c \in {" ", "\n", "\t"}

\* Characters the pattern \d matches.
IsDigit(c) == c \in {"0", "1", "2", "3", "4", "5", "6", "7", "8", "9"}

\* _DIGIT_RE.sub("0", w): every digit character of w replaced by "0".
RECURSIVE DigitSubFrom(_, _)
DigitSubFrom(w, i) ==
    IF i > Len(w) THEN ""
    ELSE (IF IsDigit(Char(w, i)) THEN "0" ELSE Char(w, i)) \o DigitSubFrom(w, i + 1)

_DIGIT_RE_sub(w) == DigitSubFrom(w, 1)

\* line.strip(): leading and trailing white space removed.
RECURSIVE LStripFrom(_, _)
LStripFrom(s, i) ==
    IF i > Len(s) THEN ""
    ELSE IF IsSpace(Char(s, i)) THEN LStripFrom(s, i + 1)
    ELSE SubSeq(s, i, Len(s))

RECURSIVE RStripTo(_, _)
RStripTo(s, j) ==
    IF j < 1 THEN ""
    ELSE IF IsSpace(Char(s, j)) THEN RStripTo(s, j - 1)
    ELSE SubSeq(s, 1, j)

strip(line) == LET l == LStripFrom(line, 1) IN RStripTo(l, Len(l))

\* str(n) for n >= 0.
RECURSIVE str(_)
str(n) ==
    IF n < 10 THEN Char("0123456789", n + 1)
    ELSE str(n \div 10) \o Char("0123456789", (n % 10) + 1)

\* " ".join(words)
RECURSIVE JoinFrom(_, _)
JoinFrom(words, i) ==
    IF i > Len(words) THEN ""
    ELSE IF i = Len(words) THEN words[i]
    ELSE words[i] \o " " \o JoinFrom(words, i + 1)

join(words) == JoinFrom(words, 1)

(***************************************************************************)
(* tokenize: nltk.word_tokenize on text made of words and white space      *)
(* splits the sentence at runs of white space.                             *)
(***************************************************************************)
RECURSIVE SplitFrom(_, _, _)
SplitFrom(s, i, cur) ==
    IF i > Len(s) THEN (IF cur = "" THEN <<>> ELSE <<cur>>)
    ELSE IF IsSpace(Char(s, i))
         THEN (IF cur = "" THEN <<>> ELSE <<cur>>) \o SplitFrom(s, i + 1, "")
         ELSE SplitFrom(s, i + 1, cur \o Char(s, i))

tokenize(sentence) == SplitFrom(sentence, 1, "")

(***************************************************************************)
(* The frequency dictionary of create_vocabulary: keys in insertion order  *)
(* and the count of each key.                                              *)
(***************************************************************************)
EmptyDict == [keys |-> <<>>, count |-> <<>>]

DictGet(d, k) == d.count[CHOOSE i \in DOMAIN d.keys : d.keys[i] = k]

\* if word in vocab: vocab[word] += 1 else: vocab[word] = 1
CountWord(vocab, word) ==
    IF word \in Range(vocab.keys)
    THEN LET i == CHOOSE j \in DOMAIN vocab.keys : vocab.keys[j] = word
         IN  [vocab EXCEPT !.count[i] = @ + 1]
    ELSE [keys |-> Append(vocab.keys, word), count |-> Append(vocab.count, 1)]

\* for w in tokens: word = _DIGIT_RE.sub("0", w) if normalize_digits else w; count it
RECURSIVE CountTokens(_, _, _, _)
CountTokens(vocab, tokens, i, normalize_digits) ==
    IF i > Len(tokens) THEN vocab
    ELSE LET w == tokens[i]
             word == IF normalize_digits THEN _DIGIT_RE_sub(w) ELSE w
         IN  CountTokens(CountWord(vocab, word), tokens, i + 1, normalize_digits)

\* for line in f: tokens = tokenize(line); count the tokens
RECURSIVE CountLines(_, _, _, _)
CountLines(vocab, lines, i, normalize_digits) ==
    IF i > Len(lines) THEN vocab
    ELSE CountLines(CountTokens(vocab, tokenize(lines[i]), 1, normalize_digits),
                    lines, i + 1, normalize_digits)

\* sorted(vocab, key=vocab.get, reverse=True): a stable sort over the dict's
\* keys, which Python 3 iterates in insertion order, so keys of equal count
\* keep their insertion order.
InsertDesc(sorted, k, vocab) ==
    LET after == {j \in DOMAIN sorted : DictGet(vocab, sorted[j]) >= DictGet(vocab, k)}
        n == Cardinality(after)
    IN  SubSeq(sorted, 1, n) \o <<k>> \o SubSeq(sorted, n + 1, Len(sorted))

RECURSIVE SortedFrom(_, _, _)
SortedFrom(sorted, vocab, i) ==
    IF i > Len(vocab.keys) THEN sorted
    ELSE SortedFrom(InsertDesc(sorted, vocab.keys[i], vocab), vocab, i + 1)

\* Faulty variant: the keys in insertion order, not sorted.
sorted_by_count_unsorted(vocab) == vocab.keys

sorted_by_count(vocab) == SortedFrom(<<>>, vocab, 1)

\* Faulty variant: the cut is one entry too long.
SlicePrefix_one_more(list, n) ==
    SubSeq(list, 1, IF n + 1 < Len(list) THEN n + 1 ELSE Len(list))

\* list[:n] of Python: a negative n counts from the end.
SlicePrefix(list, n) ==
    IF n >= 0 THEN SubSeq(list, 1, IF n < Len(list) THEN n ELSE Len(list))
    ELSE SubSeq(list, 1, IF Len(list) + n > 0 THEN Len(list) + n ELSE 0)

\* Faulty variant: the special symbols are appended, not put first.
vocab_list_symbols_last(vocab, max_vocabulary_size) ==
    LET all == sorted_by_count(vocab) \o _START_VOCAB
    IN  IF Len(all) > max_vocabulary_size
        THEN SlicePrefix(all, max_vocabulary_size)
        ELSE all

\* vocab_list = _START_VOCAB + sorted(...); truncated to max_vocabulary_size
vocab_list(vocab, max_vocabulary_size) ==
    LET all == _START_VOCAB \o sorted_by_count(vocab)
    IN  IF Len(all) > max_vocabulary_size
        THEN SlicePrefix(all, max_vocabulary_size)
        ELSE all

(***************************************************************************)
(* The file system: a function from the paths that exist to their files.   *)
(* A file is the sequence of its lines, each with its line terminator.     *)
(***************************************************************************)
\* os.path.exists(path)
exists(files, path) == path \in DOMAIN files

\* open(path, "w") followed by the writes of lines, then close
WriteFile(files, path, lines) ==
    [q \in DOMAIN files \cup {path} |-> IF q = path THEN lines ELSE files[q]]

\* os.path.join(directory, name)
path_join(directory, name) == directory \o "/" \o name

(***************************************************************************)
(* Faults the environment injects into one call: none, or a failure of     *)
(* kind "read", "tokenize" or "write" after `at` lines went through.       *)
(***************************************************************************)
NoFault == [kind |-> "none", at |-> 0]

FaultError(fault) == IF fault.kind = "tokenize" THEN "TokenizerError" ELSE "IOError"

Outcome(files, error, value, opened_paths) ==
    [fs |-> files, error |-> error, value |-> value, opened |-> opened_paths]

(***************************************************************************)
(* create_vocabulary(vocabulary_path, data_path, max_vocabulary_size,      *)
(*                   normalize_digits)                                     *)
(***************************************************************************)
\* The body of create_vocabulary under "if not os.path.exists(vocabulary_path)".
build_vocabulary(files, vocabulary_path, data_path, max_vocabulary_size, normalize_digits, fault) ==
    IF ~exists(files, data_path)
    THEN Outcome(files, "IOError", <<>>, {})
    ELSE IF fault.kind \in {"read", "tokenize"} /\ fault.at < Len(files[data_path])
    THEN Outcome(files, FaultError(fault), <<>>, {data_path})
    ELSE LET vocab == CountLines(EmptyDict, files[data_path], 1, normalize_digits)
             list == vocab_list(vocab, max_vocabulary_size)
             out == [i \in 1..Len(list) |-> list[i] \o "\n"]
         IN  IF fault.kind = "write" /\ fault.at < Len(out)
             THEN Outcome(WriteFile(files, vocabulary_path, SubSeq(out, 1, fault.at)),
                          FaultError(fault), <<>>, {data_path, vocabulary_path})
             ELSE Outcome(WriteFile(files, vocabulary_path, out), "ok", <<>>,
                          {data_path, vocabulary_path})

\* Faulty variant: the vocabulary is built whether or not the file exists.
create_vocabulary_overwrite(files, vocabulary_path, data_path, max_vocabulary_size, normalize_digits, fault) ==
    build_vocabulary(files, vocabulary_path, data_path, max_vocabulary_size,
                     normalize_digits, fault)

create_vocabulary(files, vocabulary_path, data_path, max_vocabulary_size, normalize_digits, fault) ==
    IF exists(files, vocabulary_path)
    THEN Outcome(files, "ok", <<>>, {})
    ELSE build_vocabulary(files, vocabulary_path, data_path, max_vocabulary_size,
                          normalize_digits, fault)

(***************************************************************************)
(* initialize_vocabulary(vocabulary_path): the pair (vocab, rev_vocab).    *)
(***************************************************************************)
\* Faulty variant: a key already in the dictionary keeps its value.
dict_set_keep_first(d, k, v) ==
    IF k \in DOMAIN d THEN d
    ELSE [x \in DOMAIN d \cup {k} |-> IF x = k THEN v ELSE d[x]]

\* One pair entering a dict: a key already there gets the new value.
dict_set(d, k, v) == [x \in DOMAIN d \cup {k} |-> IF x = k THEN v ELSE d[x]]

\* dict([(x, y) for (y, x) in enumerate(rev_vocab)])
RECURSIVE DictOfPairs(_, _, _)
DictOfPairs(d, rev_vocab, i) ==
    IF i > Len(rev_vocab) THEN d
    ELSE DictOfPairs(dict_set(d, rev_vocab[i], i - 1), rev_vocab, i + 1)

EmptyMap == [k \in {} |-> 0]

NoIndex == [loaded |-> FALSE, vocab |-> EmptyMap, rev_vocab |-> <<>>]

\* The body of initialize_vocabulary under "if os.path.exists(vocabulary_path)".
load_vocabulary(lines) ==
    LET rev_vocab == [i \in 1..Len(lines) |-> strip(lines[i])]
        vocab == DictOfPairs(EmptyMap, rev_vocab, 1)
    IN  [error |-> "ok",
         index |-> [loaded |-> TRUE, vocab |-> vocab, rev_vocab |-> rev_vocab]]

\* Faulty variant: a missing file gives an empty vocabulary.
initialize_vocabulary_empty(files, vocabulary_path) ==
    IF exists(files, vocabulary_path)
    THEN load_vocabulary(files[vocabulary_path])
    ELSE load_vocabulary(<<>>)

initialize_vocabulary(files, vocabulary_path) ==
    IF exists(files, vocabulary_path)
    THEN load_vocabulary(files[vocabulary_path])
    ELSE [error |-> "ValueError", index |-> NoIndex]

(***************************************************************************)
(* sentence_to_token_ids(sentence, vocabulary, normalize_digits)           *)
(***************************************************************************)
\* Faulty variant: a missing word gets PAD_ID.
dict_get_pad(vocabulary, w, default) ==
    IF w \in DOMAIN vocabulary THEN vocabulary[w] ELSE PAD_ID

\* vocabulary.get(w, default)
dict_get(vocabulary, w, default) ==
    IF w \in DOMAIN vocabulary THEN vocabulary[w] ELSE default

\* Faulty variant: the digits of every word are replaced by 0 before the lookup.
sentence_to_token_ids_normalizing(sentence, vocabulary, normalize_digits) ==
    LET words == tokenize(sentence)
    IN  [i \in 1..Len(words) |-> dict_get(vocabulary, _DIGIT_RE_sub(words[i]), UNK_ID)]

\* normalize_digits is accepted and not used: the words are looked up as
\* tokenized.
sentence_to_token_ids(sentence, vocabulary, normalize_digits) ==
    LET words == tokenize(sentence)
    IN  [i \in 1..Len(words) |-> dict_get(vocabulary, words[i], UNK_ID)]

(***************************************************************************)
(* data_to_token_ids(data_path, target_path, vocabulary_path,              *)
(*                   normalize_digits)                                     *)
(***************************************************************************)
\* " ".join([str(tok) for tok in token_ids]) + "\n"
ids_line(token_ids) ==
    join([i \in 1..Len(token_ids) |-> str(token_ids[i])]) \o "\n"

data_to_token_ids(files, data_path, target_path, vocabulary_path, normalize_digits, fault) ==
    IF exists(files, target_path)
    THEN Outcome(files, "ok", <<>>, {})
    ELSE LET loaded == initialize_vocabulary(files, vocabulary_path)
         IN  IF loaded.error # "ok"
             THEN Outcome(files, loaded.error, <<>>, {})
             ELSE IF ~exists(files, data_path)
             THEN Outcome(files, "IOError", <<>>, {vocabulary_path})
             ELSE LET data == files[data_path]
                      out == [i \in 1..Len(data) |->
                                 ids_line(sentence_to_token_ids(data[i], loaded.index.vocab,
                                                                normalize_digits))]
                      all == {vocabulary_path, data_path, target_path}
                  IN  IF fault.kind # "none" /\ fault.at < Len(data)
                      THEN Outcome(WriteFile(files, target_path, SubSeq(out, 1, fault.at)),
                                   FaultError(fault), <<>>, all)
                      ELSE Outcome(WriteFile(files, target_path, out), "ok", <<>>, all)

(***************************************************************************)
(* prepare_data: the paths it derives and the six calls it makes in order. *)
(***************************************************************************)
\* "vocab%d.to" % size, joined to data_dir; path + (".ids%d" % size)
vocab_path(data_dir, size, tag) == path_join(data_dir, "vocab" \o str(size) \o "." \o tag)

ids_path(path, size) == path \o ".ids" \o str(size)

\* get_train_path(directory)
get_train_path(directory) == path_join(directory, "train")

\* The arguments prepare_wmt_data hands to prepare_data: the development paths
\* are derived with get_train_path as well.
prepare_wmt_data_args(data_dir, en_vocabulary_size, fr_vocabulary_size) ==
    [data_dir |-> data_dir,
     from_train_path |-> get_train_path(data_dir) \o ".en",
     to_train_path |-> get_train_path(data_dir) \o ".fr",
     from_dev_path |-> get_train_path(data_dir) \o ".en",
     to_dev_path |-> get_train_path(data_dir) \o ".fr",
     from_vocabulary_size |-> en_vocabulary_size,
     to_vocabulary_size |-> fr_vocabulary_size]

to_vocab_path(a) == vocab_path(a.data_dir, a.to_vocabulary_size, "to")
from_vocab_path(a) == vocab_path(a.data_dir, a.from_vocabulary_size, "from")
to_train_ids_path(a) == ids_path(a.to_train_path, a.to_vocabulary_size)
from_train_ids_path(a) == ids_path(a.from_train_path, a.from_vocabulary_size)
to_dev_ids_path(a) == ids_path(a.to_dev_path, a.to_vocabulary_size)
from_dev_ids_path(a) == ids_path(a.from_dev_path, a.from_vocabulary_size)

\* The tuple prepare_data returns.
prepare_data_result(a) ==
    <<from_train_ids_path(a), to_train_ids_path(a), from_dev_ids_path(a),
      to_dev_ids_path(a), from_vocab_path(a), to_vocab_path(a)>>

\* The statements of prepare_data, in order; normalize_digits keeps its default.
Steps ==
    <<"create_to", "create_from", "ids_to_train", "ids_from_train",
      "ids_to_dev", "ids_from_dev", "return">>

NextStep(step) == Steps[(CHOOSE i \in DOMAIN Steps : Steps[i] = step) + 1]

prepare_data_step(files, a, step, fault) ==
    CASE step = "create_to" ->
           create_vocabulary(files, to_vocab_path(a), a.to_train_path,
                             a.to_vocabulary_size, TRUE, fault)
      [] step = "create_from" ->
           create_vocabulary(files, from_vocab_path(a), a.from_train_path,
                             a.from_vocabulary_size, TRUE, fault)
      [] step = "ids_to_train" ->
           data_to_token_ids(files, a.to_train_path, to_train_ids_path(a),
                             to_vocab_path(a), TRUE, fault)
      [] step = "ids_from_train" ->
           data_to_token_ids(files, a.from_train_path, from_train_ids_path(a),
                             from_vocab_path(a), TRUE, fault)
      [] step = "ids_to_dev" ->
           data_to_token_ids(files, a.to_dev_path, to_dev_ids_path(a),
                             to_vocab_path(a), TRUE, fault)
      [] step = "ids_from_dev" ->
           data_to_token_ids(files, a.from_dev_path, from_dev_ids_path(a),
                             from_vocab_path(a), TRUE, fault)

\* A run of prepare_data no fault interrupts, from statement `step` on.
RECURSIVE prepare_data_from(_, _, _)
prepare_data_from(files, a, step) ==
    IF step = "return" THEN files
    ELSE prepare_data_from(prepare_data_step(files, a, step, NoFault).fs, a, NextStep(step))

prepare_data(files, a) == prepare_data_from(files, a, "create_to")

(***************************************************************************)
(* Inputs.                                                                 *)
(***************************************************************************)
DataPath == "data/train.to"
VocabularyPath == "data/vocab.to"
TargetPath == "data/train.to.ids"

ExampleCorpus == <<"the cat sat\n", "the dog sat\n">>

\* Data files: the example, digits, reserved symbols as tokens, a corpus with
\* more distinct tokens than small vocabularies hold, blank lines only.
Corpora ==
    {ExampleCorpus,
     <<"room12 room45 hall\n", "room12 a1\n">>,
     <<"_UNK _PAD a\n", "a _UNK b\n">>,
     <<"a b b c c c\n", "\n", "d d d d e\n">>,
     <<"\n">>}

\* Vocabulary files found on disk before any call: the one of the docstring,
\* one with a repeated line, one whose lines differ only in white space and
\* whose last line has no terminator, one with digits.
GivenVocabularies ==
    {<<"dog\n", "cat\n">>,
     <<"_PAD\n", "_GO\n", "_EOS\n", "_UNK\n", "the\n", "cat\n", "the\n">>,
     <<"cat\n", "dog\n", "cat \n", "sat">>,
     <<"a\n", "room00\n", "room12\n", "hall\n", "b\n">>}

Sentences == {"the cat ran\n", "room12 hall a\n", "_UNK a cat\n", "cat  dog sat\n", "\n"}

VocabularySizes == (0 - 1)..MaxVocabularySize

Faults ==
    {NoFault} \cup
    [kind : {"read", "tokenize", "write"}, at : 0..MaxFaultAt]

(***************************************************************************)
(* State.                                                                  *)
(***************************************************************************)
VARIABLES
    fs,       \* the file system
    index,    \* the Vocabulary Index the caller holds (initialize_vocabulary's result)
    call,     \* the last call: operation and arguments
    ret,      \* what the last call returned or raised
    pre,      \* the file system when the last call began
    opened,   \* the files the last call opened
    repeat,   \* the last call repeats the call before it
    built,    \* the create_vocabulary call that wrote the vocabulary file, if any
    pc,       \* prepare_data: the statement to run next
    run,      \* prepare_data: 1 in the first invocation, 2 in the re-invocation
    args,     \* prepare_data: its arguments
    aborted   \* prepare_data: the first invocation ended with an error

vars == <<fs, index, call, ret, pre, opened, repeat, built, pc, run, args, aborted>>

NoCall ==
    [op |-> "none", max_vocabulary_size |-> 0, normalize_digits |-> FALSE, sentence |-> ""]

NotBuilt == [by |-> FALSE, max_vocabulary_size |-> 0, normalize_digits |-> FALSE]

NoArgs == prepare_wmt_data_args("data", 0, 0)

Returned(error, value) == [error |-> error, value |-> value]

Init ==
    /\ \E d \in [{DataPath} -> Corpora] \cup {EmptyMap} :
       \E v \in [{VocabularyPath} -> GivenVocabularies] \cup {EmptyMap} :
          fs = [p \in DOMAIN d \cup DOMAIN v |-> IF p \in DOMAIN d THEN d[p] ELSE v[p]]
    /\ index = NoIndex
    /\ call = NoCall
    /\ ret = Returned("ok", <<>>)
    /\ pre = fs
    /\ opened = {}
    /\ repeat = FALSE
    /\ built = NotBuilt
    /\ pc = "idle"
    /\ run = 0
    /\ args = NoArgs
    /\ aborted = FALSE

Called(c, r) ==
    /\ call' = c
    /\ repeat' = (c = call)
    /\ pre' = fs
    /\ fs' = r.fs
    /\ ret' = Returned(r.error, r.value)
    /\ opened' = r.opened

CreateVocabulary(max_vocabulary_size, normalize_digits) ==
    /\ pc = "idle"
    /\ LET r == create_vocabulary(fs, VocabularyPath, DataPath, max_vocabulary_size,
                                  normalize_digits, NoFault)
       IN  /\ Called([NoCall EXCEPT !.op = "create_vocabulary",
                                    !.max_vocabulary_size = max_vocabulary_size,
                                    !.normalize_digits = normalize_digits], r)
           /\ built' = IF VocabularyPath \in DOMAIN r.fs \ DOMAIN fs
                       THEN [by |-> TRUE, max_vocabulary_size |-> max_vocabulary_size,
                             normalize_digits |-> normalize_digits]
                       ELSE built
    /\ UNCHANGED <<index, pc, run, args, aborted>>

InitializeVocabulary ==
    /\ pc = "idle"
    /\ LET r == initialize_vocabulary(fs, VocabularyPath)
       IN  /\ Called([NoCall EXCEPT !.op = "initialize_vocabulary"],
                     Outcome(fs, r.error, <<>>,
                             IF r.error = "ok" THEN {VocabularyPath} ELSE {}))
           /\ index' = IF r.error = "ok" THEN r.index ELSE index
    /\ UNCHANGED <<built, pc, run, args, aborted>>

SentenceToTokenIds(sentence, normalize_digits) ==
    /\ pc = "idle"
    /\ index.loaded
    /\ Called([NoCall EXCEPT !.op = "sentence_to_token_ids",
                             !.sentence = sentence,
                             !.normalize_digits = normalize_digits],
              Outcome(fs, "ok",
                      sentence_to_token_ids(sentence, index.vocab, normalize_digits), {}))
    /\ UNCHANGED <<index, built, pc, run, args, aborted>>

DataToTokenIds(normalize_digits) ==
    /\ pc = "idle"
    /\ Called([NoCall EXCEPT !.op = "data_to_token_ids",
                             !.normalize_digits = normalize_digits],
              data_to_token_ids(fs, DataPath, TargetPath, VocabularyPath,
                                normalize_digits, NoFault))
    /\ UNCHANGED <<index, built, pc, run, args, aborted>>

Next ==
    \/ \E m \in VocabularySizes, n \in BOOLEAN : CreateVocabulary(m, n)
    \/ InitializeVocabulary
    \/ \E s \in Sentences, n \in BOOLEAN : SentenceToTokenIds(s, n)
    \/ \E n \in BOOLEAN : DataToTokenIds(n)

Spec == Init /\ [][Next]_vars

(***************************************************************************)
(* prepare_data, one statement at a time.  In the first invocation the     *)
(* environment may make any call fail part-way; the re-invocation, made    *)
(* after the cause is fixed, meets no fault.                               *)
(***************************************************************************)
PipelineSizes == {4, 6}

PipelineCorpora == {ExampleCorpus, <<"room12 room45 hall\n", "room12 a1\n">>}

\* prepare_data called directly with four files, or through prepare_wmt_data.
PipelineArgs ==
    {[prepare_wmt_data_args("data", e, f) EXCEPT
         !.from_dev_path = path_join("data", "dev.en"),
         !.to_dev_path = path_join("data", "dev.fr")] : e, f \in PipelineSizes}
    \cup {prepare_wmt_data_args("data", e, e) : e \in PipelineSizes}

DataPaths(a) == {a.from_train_path, a.to_train_path, a.from_dev_path, a.to_dev_path}

InitPipeline ==
    /\ args \in PipelineArgs
    /\ fs \in [DataPaths(args) -> PipelineCorpora]
    /\ index = NoIndex
    /\ call = NoCall
    /\ ret = Returned("ok", <<>>)
    /\ pre = fs
    /\ opened = {}
    /\ repeat = FALSE
    /\ built = NotBuilt
    /\ pc = "create_to"
    /\ run = 1
    /\ aborted = FALSE

PrepareDataCall(op, fault) ==
    /\ fault \in (IF run = 1 THEN Faults ELSE {NoFault})
    /\ LET r == prepare_data_step(fs, args, pc, fault)
       IN  /\ Called([NoCall EXCEPT !.op = op, !.normalize_digits = TRUE], r)
           /\ pc' = IF r.error = "ok" THEN NextStep(pc) ELSE "aborted"
           /\ aborted' = (aborted \/ (run = 1 /\ r.error # "ok"))
    /\ UNCHANGED <<index, built, run, args>>

PrepareDataCreateVocabulary(fault) ==
    /\ pc \in {"create_to", "create_from"}
    /\ PrepareDataCall("create_vocabulary", fault)

PrepareDataToTokenIds(fault) ==
    /\ pc \in {"ids_to_train", "ids_from_train", "ids_to_dev", "ids_from_dev"}
    /\ PrepareDataCall("data_to_token_ids", fault)

PrepareDataReturn ==
    /\ pc = "return"
    /\ pc' = "done"
    /\ ret' = Returned("ok", prepare_data_result(args))
    /\ UNCHANGED <<fs, index, call, pre, opened, repeat, built, run, args, aborted>>

Reinvoke ==
    /\ pc \in {"aborted", "done"}
    /\ run = 1
    /\ run' = 2
    /\ pc' = "create_to"
    /\ UNCHANGED <<fs, index, call, ret, pre, opened, repeat, built, args, aborted>>

NextPipeline ==
    \/ \E f \in Faults : PrepareDataCreateVocabulary(f)
    \/ \E f \in Faults : PrepareDataToTokenIds(f)
    \/ PrepareDataReturn
    \/ Reinvoke

SpecPipeline == InitPipeline /\ [][NextPipeline]_vars

(***************************************************************************)
(* Properties.                                                             *)
(***************************************************************************)
\* A line of a file without its line terminator.
LineText(l) ==
    IF Len(l) > 0 /\ Char(l, Len(l)) = "\n" THEN SubSeq(l, 1, Len(l) - 1) ELSE l

\* The tokens of the data file in reading order, as create_vocabulary counted them.
RECURSIVE TokensFrom(_, _, _)
TokensFrom(lines, i, normalize_digits) ==
    IF i > Len(lines) THEN <<>>
    ELSE LET words == tokenize(lines[i])
         IN  [k \in 1..Len(words) |->
                 IF normalize_digits THEN _DIGIT_RE_sub(words[k]) ELSE words[k]]
             \o TokensFrom(lines, i + 1, normalize_digits)

Counted == TokensFrom(fs[DataPath], 1, built.normalize_digits)

\* How often each of the tokens in `tokens` occurs in `counted`.
Frequencies(counted, tokens) ==
    [t \in tokens |-> Cardinality({i \in DOMAIN counted : counted[i] = t})]

\* The vocabulary file create_vocabulary wrote, its entries (the lines without
\* their terminators) and the positions past the special symbols.
Written == fs[VocabularyPath]

Entries == [i \in DOMAIN Written |-> LineText(Written[i])]

Ranked == 5..Len(Written)

\* C1: a vocabulary file create_vocabulary built with max_vocabulary_size >= 4
\* begins with the lines _PAD, _GO, _EOS, _UNK, whatever the corpus holds.
C1_SpecialSymbolsFirst ==
    (built.by /\ built.max_vocabulary_size >= 4) =>
        /\ Len(Written) >= 4
        /\ Written[PAD_ID + 1] = "_PAD\n"
        /\ Written[GO_ID + 1] = "_GO\n"
        /\ Written[EOS_ID + 1] = "_EOS\n"
        /\ Written[UNK_ID + 1] = "_UNK\n"

\* C1 witness: a truncated vocabulary built from a corpus whose tokens include
\* the special symbols themselves.
C1_Witness ==
    /\ built.by
    /\ built.max_vocabulary_size = 5
    /\ Len(Written) = 5
    /\ "_UNK" \in Range(Counted)
    /\ "_PAD" \in Range(Counted)

\* C2 as stated: for every max_vocabulary_size the file has at most that many
\* lines, and nothing is dropped when the symbols and the counted tokens fit.
C2_Original ==
    built.by =>
        /\ Len(Written) <= built.max_vocabulary_size
        /\ (4 + Cardinality(Range(Counted)) <= built.max_vocabulary_size =>
               \A t \in Range(Counted) : \E i \in Ranked : Entries[i] = t)

\* C2 amended: for every max_vocabulary_size >= 0 the file has at most that
\* many lines, and nothing is dropped when the symbols and the counted tokens fit.
C2_SizeBound ==
    built.by =>
        /\ (built.max_vocabulary_size >= 0 => Len(Written) <= built.max_vocabulary_size)
        /\ (4 + Cardinality(Range(Counted)) <= built.max_vocabulary_size =>
               \A t \in Range(Counted) : \E i \in Ranked : Entries[i] = t)

\* C2 witness: a vocabulary cut to exactly max_vocabulary_size lines.
C2_Witness ==
    /\ built.by
    /\ built.max_vocabulary_size >= 4
    /\ 4 + Cardinality(Range(Counted)) > built.max_vocabulary_size
    /\ Len(Written) = built.max_vocabulary_size

\* C3: the entries at ids 4 and above are in non-increasing order of corpus
\* frequency, no token left out is more frequent than one kept, and for the
\* corpus "the cat sat" / "the dog sat" with max_vocabulary_size 10 "the" and
\* "sat" come before "cat" and "dog" and "the cat ran" encodes to
\* [id(the), id(cat), 3].
C3_FrequencyRanked ==
    built.by =>
        LET entry == Entries
            kept == {entry[i] : i \in Ranked}
            freq == Frequencies(Counted, Range(Counted) \cup kept)
            id(t) == (CHOOSE i \in Ranked : entry[i] = t) - 1
        IN  /\ \A i, j \in Ranked : i < j => freq[entry[i]] >= freq[entry[j]]
            /\ \A t \in Range(Counted) \ kept : \A u \in kept : freq[t] <= freq[u]
            /\ (built.max_vocabulary_size = 10 /\ fs[DataPath] = ExampleCorpus) =>
                  /\ {"the", "sat", "cat", "dog"} \subseteq kept
                  /\ \A t \in {"the", "sat"} : \A u \in {"cat", "dog"} : id(t) < id(u)
                  /\ (index.loaded /\ call.op = "sentence_to_token_ids"
                         /\ call.sentence = "the cat ran\n") =>
                        ret.value = <<id("the"), id("cat"), 3>>

\* C3 witness: the example corpus, built with max_vocabulary_size 10, loaded,
\* and "the cat ran" encoded.
C3_Witness ==
    /\ built.by
    /\ built.max_vocabulary_size = 10
    /\ fs[DataPath] = ExampleCorpus
    /\ index.loaded
    /\ call.op = "sentence_to_token_ids"
    /\ call.sentence = "the cat ran\n"
    /\ Len(ret.value) = 3

\* The last call encoded a sentence all of whose tokens are in the vocabulary.
EncodedKnown ==
    /\ call.op = "sentence_to_token_ids"
    /\ \A t \in Range(tokenize(call.sentence)) : t \in DOMAIN index.vocab

\* Decoding the returned ids through rev_vocab gives back the tokens.
Decodes ==
    LET words == tokenize(call.sentence)
    IN  /\ Len(ret.value) = Len(words)
        /\ \A i \in DOMAIN words :
              /\ ret.value[i] + 1 \in DOMAIN index.rev_vocab
              /\ index.rev_vocab[ret.value[i] + 1] = words[i]

C6_DigitsConsistent ==
    /\ (built.by /\ built.normalize_digits) =>
          /\ \A i \in Ranked : Entries[i] = _DIGIT_RE_sub(Entries[i])
          /\ \A i, j \in Ranked : Entries[i] = Entries[j] => i = j
    /\ (call.op = "sentence_to_token_ids" /\ call.normalize_digits) =>
          LET words == tokenize(call.sentence)
          IN  /\ Len(ret.value) = Len(words)
              /\ \A i \in DOMAIN words :
                    _DIGIT_RE_sub(words[i]) \in DOMAIN index.vocab =>
                        ret.value[i] = index.vocab[_DIGIT_RE_sub(words[i])]

\* C7: create_vocabulary (data_to_token_ids) called when its output file exists
\* changes no file, opens none and returns without error; calling either twice
\* in a row with the same arguments leaves the first call's output as it was.
C7_SkipIfExists ==
    /\ (call.op = "create_vocabulary" /\ VocabularyPath \in DOMAIN pre) =>
          (fs = pre /\ opened = {} /\ ret.error = "ok")
    /\ (call.op = "data_to_token_ids" /\ TargetPath \in DOMAIN pre) =>
          (fs = pre /\ opened = {} /\ ret.error = "ok")
    /\ (repeat /\ call.op \in {"create_vocabulary", "data_to_token_ids"}) => fs = pre

\* C7 witness: create_vocabulary called a second time with the arguments that
\* built the vocabulary file.
C7_Witness ==
    /\ repeat
    /\ call.op = "create_vocabulary"
    /\ built.by
    /\ VocabularyPath \in DOMAIN pre
    /\ Len(pre[VocabularyPath]) > 4

\* C9: data_to_token_ids called with neither the target file nor the vocabulary
\* file on disk raises the not-found error and leaves the file system as it was.
C9_MissingVocabulary ==
    (call.op = "data_to_token_ids" /\ TargetPath \notin DOMAIN pre
        /\ VocabularyPath \notin DOMAIN pre) =>
        /\ ret.error = "ValueError"
        /\ fs = pre
        /\ TargetPath \notin DOMAIN fs

\* C9 witness: the call made with a data file on disk and no vocabulary file.
C9_Witness ==
    /\ call.op = "data_to_token_ids"
    /\ DataPath \in DOMAIN pre
    /\ TargetPath \notin DOMAIN pre
    /\ VocabularyPath \notin DOMAIN pre

\* What initialize_vocabulary returns for the file it read: rev_vocab holds
\* every stripped line, vocab maps a token to the position of the last line
\* equal to it, and rev_vocab[vocab[t]] = t.
LoadedByPosition ==
    LET lines == fs[VocabularyPath]
        stripped == [i \in DOMAIN lines |-> strip(lines[i])]
    IN  /\ index.rev_vocab = stripped
        /\ DOMAIN index.vocab = Range(stripped)
        /\ \A t \in DOMAIN index.vocab :
              /\ index.rev_vocab[index.vocab[t] + 1] = t
              /\ \A i \in DOMAIN lines : stripped[i] = t => i - 1 <= index.vocab[t]

\* vocab[rev_vocab[i]] = i for every i.
Inverse == \A i \in DOMAIN index.rev_vocab : index.vocab[index.rev_vocab[i]] = i - 1

\* No two of the lines are the same, each taken through `text`.
NoDuplicate(lines, text(_)) ==
    LET texts == [i \in DOMAIN lines |-> text(lines[i])]
    IN  \A i, j \in DOMAIN lines : texts[i] = texts[j] => i = j

\* C10 as stated: ids go by line position, and vocab[rev_vocab[i]] = i for every
\* i exactly when no two lines of the file are the same.
C10_Original ==
    index.loaded =>
        /\ LoadedByPosition
        /\ Inverse <=> NoDuplicate(fs[VocabularyPath], LineText)

\* C10 amended: ids go by line position, and vocab[rev_vocab[i]] = i for every
\* i exactly when no two lines of the file are the same once stripped.
C10_LoadByPosition ==
    index.loaded =>
        /\ LoadedByPosition
        /\ Inverse <=> NoDuplicate(fs[VocabularyPath], strip)

\* C10 witness: a loaded file with two lines that differ as lines and are the
\* same once stripped.
C10_Witness ==
    /\ index.loaded
    /\ \E i, j \in DOMAIN fs[VocabularyPath] :
          /\ i < j
          /\ LineText(fs[VocabularyPath][i]) # LineText(fs[VocabularyPath][j])
          /\ index.rev_vocab[i] = index.rev_vocab[j]

\* C8 as stated: when the first invocation of prepare_data aborted, the
\* re-invocation ends with the six output files on disk, each as a run that
\* nothing interrupts would have written it.
C8_SafeReinvocation ==
    (aborted /\ run = 2 /\ pc = "done") =>
        LET inputs == [p \in DataPaths(args) |-> fs[p]]
            whole == prepare_data(inputs, args)
        IN  \A i \in DOMAIN prepare_data_result(args) :
                LET p == prepare_data_result(args)[i]
                IN  p \in DOMAIN fs /\ fs[p] = whole[p]

=============================================================================
